---- MODULE Spec2Model ----
(***************************************************************************)
(* generate_icons.py: create_icon(size, filename) renders a square RGBA    *)
(* icon (orange disc, white trend polyline, translucent alert line) and    *)
(* saves it as PNG; the module level calls it for 16, 48 and 128 and then  *)
(* prints a completion line.                                               *)
(*                                                                         *)
(* The canvas is modelled pixel by pixel.  Pixel (x, y) of the image is    *)
(* img[y + 1][x + 1].  The imaging library's primitives (Image.new,        *)
(* ImageDraw.ellipse, ImageDraw.line, Image.save) are modelled by what     *)
(* they do to the pixel grid and to the file system.  Which boundary       *)
(* pixels a shape covers depends on the library's rounding; the variable   *)
(* raster fixes that choice for the life of the installation:              *)
(*   raster = 0: a pixel is covered when its centre lies in the shape,     *)
(*   raster = 1: a pixel is covered when its unit square meets the shape.  *)
(***************************************************************************)
EXTENDS Integers, Sequences, FiniteSets, TLC

VARIABLES
    raster,      \* rounding of the drawing primitives (0 or 1), never changes
    script,      \* the calls the module level makes, in order
    ip,          \* index of the module-level statement to execute next
    pc,          \* position of the interpreter
    size,        \* create_icon: parameter
    filename,    \* create_icon: parameter
    img,         \* create_icon: the canvas
    margin,      \* create_icon: local
    line_width,  \* create_icon: local
    center,      \* create_icon: local
    points,      \* create_icon: local
    i,           \* create_icon: loop variable of the polyline loop
    y_line,      \* create_icon: local
    files,       \* the file system: filename -> contents, or Absent
    stdout,      \* lines printed by the current execution
    err,         \* the uncaught exception that ended the execution, or "none"
    events,      \* history: the writes and prints of the current execution
    prevFiles    \* history: the file system when the current execution began

vars == <<raster, script, ip, pc, size, filename, img, margin, line_width,
          center, points, i, y_line, files, stdout, err, events, prevFiles>>

locals == <<img, margin, line_width, center, points, i, y_line>>

----------------------------------------------------------------------------
(* Bounds of the model *)

\* create_icon is exercised alone for every size in -MaxNeg .. MaxSize
MaxSize == 24

MaxNeg == 1

----------------------------------------------------------------------------
(* Colours *)

Transparent == <<0, 0, 0, 0>>

Orange == <<255, 152, 0, 255>>

White == <<255, 255, 255, 255>>

AlertWhite == <<255, 255, 255, 200>>

Alpha(c) == c[4]

----------------------------------------------------------------------------
(* The module level *)

Path16 == "C:\\Users\\USER\\tradingview-alert-extension\\icons\\icon16.png"

Path48 == "C:\\Users\\USER\\tradingview-alert-extension\\icons\\icon48.png"

Path128 == "C:\\Users\\USER\\tradingview-alert-extension\\icons\\icon128.png"

\* mutant: the calls in another order
ProgramReordered ==
    << [size |-> 48, filename |-> Path48],
       [size |-> 16, filename |-> Path16],
       [size |-> 128, filename |-> Path128] >>

Program ==
    << [size |-> 16, filename |-> Path16],
       [size |-> 48, filename |-> Path48],
       [size |-> 128, filename |-> Path128] >>

Paths == {Path16, Path48, Path128}

Absent == [width |-> -1, height |-> -1, mode |-> "absent", data |-> <<>>]

CreatedLine(f) == <<"Created", f>>

DoneLine == <<"All icons created successfully!">>

----------------------------------------------------------------------------
(* Arithmetic helpers *)

Abs(n) == IF n < 0 THEN 0 - n ELSE n

Sign(n) == IF n > 0 THEN 1 ELSE IF n < 0 THEN 0 - 1 ELSE 0

Max(a, b) == IF a >= b THEN a ELSE b

Min(a, b) == IF a <= b THEN a ELSE b

Max4(s) == Max(Max(s[1], s[2]), Max(s[3], s[4]))

Min4(s) == Min(Min(s[1], s[2]), Min(s[3], s[4]))

----------------------------------------------------------------------------
(* Image.new('RGBA', (size, size), (0, 0, 0, 0)): a size x size grid, every *)
(* pixel the given colour; size 0 gives an empty image.  The library       *)
(* refuses a negative size with ValueError (action NewCanvas).             *)

\* mutant: the canvas starts opaque black, as an image without alpha would
NewImageOpaque(n, colour) == [y \in 1..n |-> [x \in 1..n |-> <<0, 0, 0, 255>>]]

NewImage(n, colour) == [y \in 1..n |-> [x \in 1..n |-> colour]]

Width(im) == IF Len(im) = 0 THEN 0 ELSE Len(im[1])

Height(im) == Len(im)

GetPixel(im, x, y) == im[y + 1][x + 1]

----------------------------------------------------------------------------
(* draw.ellipse([x0, y0, x1, y1], fill): the ellipse inscribed in the box, *)
(* clipped to the box.  In doubled coordinates the centre is               *)
(* (x0 + x1, y0 + y1) and the radii are w = x1 - x0 and h = y1 - y0; with  *)
(* raster = 1 the radii grow by half a pixel.                              *)

InEllipse(box, r, x, y) ==
    LET w == box[3] - box[1] + r
        h == box[4] - box[2] + r
        u == (2 * x - box[1] - box[3]) * h
        v == (2 * y - box[2] - box[4]) * w
    IN  /\ box[1] <= x /\ x <= box[3]
        /\ box[2] <= y /\ y <= box[4]
        /\ u * u + v * v <= (w * h) * (w * h)

----------------------------------------------------------------------------
(* draw.line([a, b], fill, width): the library turns a line of the given   *)
(* width into a parallelogram around the segment a-b and fills it.  With   *)
(* dx = b.x - a.x, dy = b.y - a.y, H = dx^2 + dy^2 and                     *)
(* f(d) = (width - 1) * |d| / (2 * sqrt(H)), the corner offsets are        *)
(*   RoundUp   = sign(d) * floor(f(d) + 1/2)                               *)
(*   RoundDown = sign(d) * ceil(f(d) - 1/2)                                *)
(* computed here in integers.  A line of width 1 is the segment itself.    *)

RECURSIVE FloorHalfUp(_, _, _, _)
\* the largest k >= from with (2k - 1) * sqrt(H) <= (width - 1) * |d|, k = from - 1 if none
FloorHalfUp(width, d, H, from) ==
    IF (2 * from - 1) * (2 * from - 1) * H <= (width - 1) * (width - 1) * d * d
    THEN FloorHalfUp(width, d, H, from + 1)
    ELSE from - 1

RECURSIVE CeilHalfDown(_, _, _, _)
\* the smallest k >= from with (2k + 1) * sqrt(H) >= (width - 1) * |d|
CeilHalfDown(width, d, H, from) ==
    IF (2 * from + 1) * (2 * from + 1) * H >= (width - 1) * (width - 1) * d * d
    THEN from
    ELSE CeilHalfDown(width, d, H, from + 1)

RoundUp(width, d, H) == Sign(d) * FloorHalfUp(width, d, H, 1)

RoundDown(width, d, H) == Sign(d) * CeilHalfDown(width, d, H, 0)

\* The four corners of the stroke of the line a-b
WideLine(a, b, width) ==
    LET dx == b[1] - a[1]
        dy == b[2] - a[2]
        H == dx * dx + dy * dy
        dxmin == RoundUp(width, dy, H)
        dxmax == RoundDown(width, dy, H)
        dymin == RoundUp(width, dx, H)
        dymax == RoundDown(width, dx, H)
    IN  IF H = 0
        THEN <<a, a, a, a>>
        ELSE << <<a[1] - dxmin, a[2] + dymax>>,
                <<b[1] - dxmin, b[2] + dymax>>,
                <<b[1] + dxmax, b[2] - dymin>>,
                <<a[1] + dxmax, a[2] - dymin>> >>

\* The axes that can separate a convex quadrilateral from an axis-parallel
\* square: the two coordinate axes and the normals of the four edges.
Axes(Q) ==
    << <<1, 0>>, <<0, 1>>,
       <<Q[2][2] - Q[1][2], Q[1][1] - Q[2][1]>>,
       <<Q[3][2] - Q[2][2], Q[2][1] - Q[3][1]>>,
       <<Q[4][2] - Q[3][2], Q[3][1] - Q[4][1]>>,
       <<Q[1][2] - Q[4][2], Q[4][1] - Q[1][1]>> >>

Dot(n, p) == n[1] * p[1] + n[2] * p[2]

\* For each axis, twice the interval the quadrilateral projects to
Extents(Q) ==
    LET A == Axes(Q)
    IN  [k \in 1..6 |->
            LET pr == [j \in 1..4 |-> Dot(A[k], Q[j])]
            IN  <<2 * Min4(pr), 2 * Max4(pr), Abs(A[k][1]) + Abs(A[k][2])>>]

\* Pixel (x, y) against the quadrilateral with axes A and extents E: its
\* centre (r = 0) or its closed unit square (r = 1) meets the quadrilateral
InQuad(A, E, r, x, y) ==
    \A k \in 1..6 :
        LET c == 2 * (A[k][1] * x + A[k][2] * y)
        IN  c - r * E[k][3] <= E[k][2] /\ c + r * E[k][3] >= E[k][1]

InLine(a, b, width, r, x, y) ==
    LET Q == WideLine(a, b, width)
    IN  InQuad(Axes(Q), Extents(Q), r, x, y)

\* mutant: the ink is alpha-blended over the pixel below instead of replacing it
Blend(ink, below) ==
    [k \in 1..4 |->
        IF k = 4
        THEN ink[4] + (below[4] * (255 - ink[4])) \div 255
        ELSE (ink[k] * ink[4] + below[k] * (255 - ink[4])) \div 255]

DrawLineBlend(im, a, b, ink, width, r) ==
    LET Q == WideLine(a, b, width)
        A == Axes(Q)
        E == Extents(Q)
    IN  [y \in 1..Height(im) |->
            [x \in 1..Width(im) |->
                IF InQuad(A, E, r, x - 1, y - 1)
                THEN Blend(ink, im[y][x])
                ELSE im[y][x]]]

\* A drawing primitive on an RGBA image drawn in mode RGBA replaces the
\* pixels it covers by the ink (no alpha blending) and leaves the others.
DrawLine(im, a, b, ink, width, r) ==
    LET Q == WideLine(a, b, width)
        A == Axes(Q)
        E == Extents(Q)
    IN  [y \in 1..Height(im) |->
            [x \in 1..Width(im) |->
                IF InQuad(A, E, r, x - 1, y - 1) THEN ink ELSE im[y][x]]]

\* mutant: the whole bounding box is filled
DrawFilledBox(im, box, ink, r) ==
    [y \in 1..Height(im) |->
        [x \in 1..Width(im) |->
            IF /\ box[1] <= x - 1 /\ x - 1 <= box[3]
               /\ box[2] <= y - 1 /\ y - 1 <= box[4]
            THEN ink ELSE im[y][x]]]

DrawEllipse(im, box, ink, r) ==
    [y \in 1..Height(im) |->
        [x \in 1..Width(im) |->
            IF InEllipse(box, r, x - 1, y - 1) THEN ink ELSE im[y][x]]]

----------------------------------------------------------------------------
(* create_icon's geometry *)

\* mutant: a sixteenth instead of an eighth
MarginSixteenth(n) == n \div 16

\* line 9
Margin(n) == n \div 8

\* line 10
LineWidth(n) == Max(2, n \div 16)

\* lines 13-16: the bounding box of the background circle
CircleBox(n, m) == <<m, m, n - m, n - m>>

\* line 19
Center(n) == n \div 2

\* mutant: the second vertex keeps the centre's height, so that the segment
\* P1-P2 runs level through the centre
PointsThroughCenter(n, m, c) ==
    << <<m + n \div 6, c + n \div 6>>,
       <<c - n \div 10, c>>,
       <<c + n \div 10, c>>,
       <<n - m - n \div 6, c - n \div 4>> >>

\* mutant: the last vertex lies below the centre, a downward trend
PointsDownward(n, m, c) ==
    << <<m + n \div 6, c + n \div 6>>,
       <<c - n \div 10, c - n \div 10>>,
       <<c + n \div 10, c>>,
       <<n - m - n \div 6, c + n \div 4>> >>

\* lines 20-25
Points(n, m, c) ==
    << <<m + n \div 6, c + n \div 6>>,
       <<c - n \div 10, c - n \div 10>>,
       <<c + n \div 10, c>>,
       <<n - m - n \div 6, c - n \div 4>> >>

\* line 32
YLine(n, c) == c - n \div 8

\* line 34: the end points of the alert line
AlertFrom(n, m, yl) == <<m + n \div 8, yl>>

AlertTo(n, m, yl) == <<n - m - n \div 8, yl>>

\* line 36
AlertWidth(lw) == Max(1, lw \div 2)

----------------------------------------------------------------------------
(* img.save(filename, 'PNG'): the file holds the dimensions, the mode and  *)
(* the pixels row by row; writing replaces what the file held.             *)

EncodePNG(im) ==
    [width |-> Width(im), height |-> Height(im), mode |-> "RGBA",
     data |-> [k \in 1..(Width(im) * Height(im)) |->
                  im[((k - 1) \div Width(im)) + 1][((k - 1) % Width(im)) + 1]]]

\* mutant: the file is opened for appending
WriteFileAppend(fs, f, contents) ==
    [fs EXCEPT ![f] = IF fs[f] = Absent
                      THEN contents
                      ELSE [contents EXCEPT !.data = fs[f].data \o contents.data]]

WriteFile(fs, f, contents) == [fs EXCEPT ![f] = contents]

----------------------------------------------------------------------------
(* The state machine *)

Sizes == ((0 - MaxNeg)..MaxSize) \cup {Program[k].size : k \in 1..Len(Program)}

Fresh(sc, r) ==
    /\ raster = r
    /\ script = sc
    /\ ip = 1
    /\ pc = "main"
    /\ size = 0
    /\ filename = ""
    /\ img = <<>>
    /\ margin = 0
    /\ line_width = 0
    /\ center = 0
    /\ points = <<>>
    /\ i = 0
    /\ y_line = 0
    /\ stdout = <<>>
    /\ err = "none"
    /\ events = <<>>

\* The program, started on a file system without the icons
Init ==
    /\ \E r \in {0, 1} : Fresh(Program, r)
    /\ files = [f \in Paths |-> Absent]
    /\ prevFiles = files

\* One call create_icon(n, Path16) for any n
InitCall ==
    /\ \E r \in {0, 1}, n \in Sizes :
          Fresh(<< [size |-> n, filename |-> Path16] >>, r)
    /\ files = [f \in Paths |-> Absent]
    /\ prevFiles = files

\* lines 43-45: the next call of the module level enters create_icon
CallCreateIcon ==
    /\ pc = "main"
    /\ ip <= Len(script)
    /\ size' = script[ip].size
    /\ filename' = script[ip].filename
    /\ pc' = "new"
    /\ UNCHANGED <<raster, script, ip, locals, files, stdout, err, events, prevFiles>>

\* line 5: img = Image.new('RGBA', (size, size), (0, 0, 0, 0))
NewCanvas ==
    /\ pc = "new"
    /\ IF size < 0
       THEN /\ err' = "ValueError"
            /\ pc' = "crashed"
            /\ img' = img
       ELSE /\ img' = NewImage(size, Transparent)
            /\ pc' = "dims"
            /\ err' = err
    /\ UNCHANGED <<raster, script, ip, size, filename, margin, line_width, center,
                   points, i, y_line, files, stdout, events, prevFiles>>

\* lines 9-10: margin and line_width
Dimensions ==
    /\ pc = "dims"
    /\ margin' = Margin(size)
    /\ line_width' = LineWidth(size)
    /\ pc' = "ellipse"
    /\ UNCHANGED <<raster, script, ip, size, filename, img, center, points, i,
                   y_line, files, stdout, err, events, prevFiles>>

\* lines 13-16: the orange background circle
FillCircle ==
    /\ pc = "ellipse"
    /\ img' = DrawEllipse(img, CircleBox(size, margin), Orange, raster)
    /\ pc' = "points"
    /\ UNCHANGED <<raster, script, ip, size, filename, margin, line_width, center,
                   points, i, y_line, files, stdout, err, events, prevFiles>>

\* lines 19-25: center and the four vertices of the trend line
ChartPoints ==
    /\ pc = "points"
    /\ center' = Center(size)
    /\ points' = Points(size, margin, center')
    /\ i' = 0
    /\ pc' = "loop"
    /\ UNCHANGED <<raster, script, ip, size, filename, img, margin, line_width,
                   y_line, files, stdout, err, events, prevFiles>>

\* lines 28-29: one iteration of the loop, or its end
DrawSegment ==
    /\ pc = "loop"
    /\ IF i < Len(points) - 1
       THEN /\ img' = DrawLine(img, points[i + 1], points[i + 2], White,
                               line_width, raster)
            /\ i' = i + 1
            /\ pc' = pc
       ELSE /\ pc' = "alert"
            /\ UNCHANGED <<img, i>>
    /\ UNCHANGED <<raster, script, ip, size, filename, margin, line_width, center,
                   points, y_line, files, stdout, err, events, prevFiles>>

\* lines 32-37: the horizontal alert line
DrawAlertLine ==
    /\ pc = "alert"
    /\ y_line' = YLine(size, center)
    /\ img' = DrawLine(img, AlertFrom(size, margin, y_line'),
                       AlertTo(size, margin, y_line'),
                       AlertWhite, AlertWidth(line_width), raster)
    /\ pc' = "save"
    /\ UNCHANGED <<raster, script, ip, size, filename, margin, line_width, center,
                   points, i, files, stdout, err, events, prevFiles>>

\* mutant: the failure of one icon is caught and the next call is made
SaveImageGuarded ==
    /\ pc = "save"
    /\ \E ok \in BOOLEAN :
          IF ok
          THEN /\ files' = WriteFile(files, filename, EncodePNG(img))
               /\ events' = Append(events, <<"write", filename>>)
               /\ pc' = "print"
               /\ UNCHANGED <<err, ip>>
          ELSE /\ err' = "OSError"
               /\ pc' = "main"
               /\ ip' = ip + 1
               /\ UNCHANGED <<files, events>>
    /\ UNCHANGED <<raster, script, size, filename, locals, stdout, prevFiles>>

\* line 39: img.save(filename, 'PNG'); the file system may refuse the write
\* (missing or unwritable directory), which raises OSError out of the program
\* and leaves the file as it was
SaveImage ==
    /\ pc = "save"
    /\ \E ok \in BOOLEAN :
          IF ok
          THEN /\ files' = WriteFile(files, filename, EncodePNG(img))
               /\ events' = Append(events, <<"write", filename>>)
               /\ pc' = "print"
               /\ err' = err
          ELSE /\ err' = "OSError"
               /\ pc' = "crashed"
               /\ UNCHANGED <<files, events>>
    /\ UNCHANGED <<raster, script, ip, size, filename, locals, stdout, prevFiles>>

\* line 40: print(f"Created {filename}"), and the return to the module level
PrintCreated ==
    /\ pc = "print"
    /\ stdout' = Append(stdout, CreatedLine(filename))
    /\ events' = Append(events, <<"print", CreatedLine(filename)>>)
    /\ pc' = "main"
    /\ ip' = ip + 1
    /\ img' = <<>>
    /\ UNCHANGED <<raster, script, size, filename, margin, line_width, center,
                   points, i, y_line, files, err, prevFiles>>

\* line 47: print("All icons created successfully!")
PrintDone ==
    /\ pc = "main"
    /\ ip = Len(script) + 1
    /\ stdout' = Append(stdout, DoneLine)
    /\ events' = Append(events, <<"print", DoneLine>>)
    /\ pc' = "done"
    /\ UNCHANGED <<raster, script, ip, size, filename, locals, files, err, prevFiles>>

\* The program is started again over the files the earlier executions left
RunAgain ==
    /\ pc \in {"done", "crashed"}
    /\ ip' = 1
    /\ pc' = "main"
    /\ size' = 0
    /\ filename' = ""
    /\ img' = <<>>
    /\ margin' = 0
    /\ line_width' = 0
    /\ center' = 0
    /\ points' = <<>>
    /\ i' = 0
    /\ y_line' = 0
    /\ stdout' = <<>>
    /\ err' = "none"
    /\ events' = <<>>
    /\ prevFiles' = files
    /\ UNCHANGED <<raster, script, files>>

Next ==
    \/ CallCreateIcon
    \/ NewCanvas
    \/ Dimensions
    \/ FillCircle
    \/ ChartPoints
    \/ DrawSegment
    \/ DrawAlertLine
    \/ SaveImage
    \/ PrintCreated
    \/ PrintDone
    \/ RunAgain

NextCall ==
    \/ CallCreateIcon
    \/ NewCanvas
    \/ Dimensions
    \/ FillCircle
    \/ ChartPoints
    \/ DrawSegment
    \/ DrawAlertLine
    \/ SaveImage
    \/ PrintCreated

Spec == Init /\ [][Next]_vars

SpecCall == InitCall /\ [][NextCall]_vars

----------------------------------------------------------------------------
(* Properties *)

\* the canvas exists: from its allocation to the return of create_icon
HasCanvas == pc \in {"dims", "ellipse", "points", "loop", "alert", "save", "print"}

\* every drawing step of the call has run
Drawn == pc \in {"save", "print"}

Corners(n) == {<<0, 0>>, <<n - 1, 0>>, <<0, n - 1>>, <<n - 1, n - 1>>}

FilePixel(file, x, y) == file.data[y * file.width + x + 1]

C2_CornersTransparent ==
    /\ (HasCanvas /\ size \div 8 > 0) =>
          \A p \in Corners(size) : Alpha(GetPixel(img, p[1], p[2])) = 0
    /\ \A f \in Paths :
          (files[f] # Absent /\ files[f].width \div 8 > 0) =>
              \A p \in Corners(files[f].width) :
                  Alpha(FilePixel(files[f], p[1], p[2])) = 0

C2_Witness ==
    /\ pc = "print"
    /\ size = 8
    /\ files[filename].width = 8
    /\ Alpha(FilePixel(files[filename], 7, 7)) = 0
    /\ FilePixel(files[filename], 4, 4) # Transparent

\* C3: margin = floor(size/8), stroke = max(2, floor(size/16)),
\* center = floor(size/2), and the circle is filled in the box
\* [margin, margin]..[size-margin, size-margin]: no orange outside it, and
\* for sizes 16 and 128 the circle touches the middle of each side of the
\* box; size 16 gives 2, 2, 8 and [2,2]-[14,14], size 128 gives 16, 8, 64
\* and [16,16]-[112,112], size 1 gives margin 0 and stroke 2
C3_Dimensions ==
    /\ pc \in {"ellipse", "points", "loop", "alert", "save", "print"} =>
          /\ 8 * margin <= size /\ size < 8 * margin + 8
          /\ line_width >= 2
          /\ size < 32 => line_width = 2
          /\ size >= 32 => (16 * line_width <= size /\ size < 16 * line_width + 16)
          /\ size = 1 => (margin = 0 /\ line_width = 2)
          /\ size = 16 => (margin = 2 /\ line_width = 2)
          /\ size = 128 => (margin = 16 /\ line_width = 8)
    /\ pc \in {"loop", "alert", "save", "print"} =>
          /\ 2 * center <= size /\ size < 2 * center + 2
          /\ size = 16 => center = 8
          /\ size = 128 => center = 64
    /\ (pc = "points" /\ size > 0) =>
          /\ \A y \in 0..(size - 1) : \A x \in 0..(size - 1) :
                GetPixel(img, x, y) = Orange =>
                    /\ margin <= x /\ x <= size - margin
                    /\ margin <= y /\ y <= size - margin
          /\ size \in {16, 128} =>
                LET lo == IF size = 16 THEN 2 ELSE 16
                    hi == IF size = 16 THEN 14 ELSE 112
                    mid == IF size = 16 THEN 8 ELSE 64
                IN  /\ GetPixel(img, lo, mid) = Orange
                    /\ GetPixel(img, hi, mid) = Orange
                    /\ GetPixel(img, mid, lo) = Orange
                    /\ GetPixel(img, mid, hi) = Orange
                    /\ GetPixel(img, lo - 1, mid) = Transparent
                    /\ GetPixel(img, hi + 1, mid) = Transparent

C3_Witness ==
    /\ pc = "points"
    /\ size = 128
    /\ margin = 16
    /\ line_width = 8
    /\ GetPixel(img, 16, 64) = Orange
    /\ GetPixel(img, 112, 64) = Orange

\* the path of the k-th call of the program
PathOf(k) == Program[k].filename

\* C4: an execution that failed stopped at the failing call: the icons of
\* the earlier calls are written and announced, no later icon is written or
\* announced, and the completion line is not printed
C4_FailureAborts ==
    err # "none" =>
        /\ pc = "crashed"
        /\ ip <= Len(script)
        /\ Len(stdout) = ip - 1
        /\ \A k \in 1..Len(script) :
              IF k < ip
              THEN /\ stdout[k] = CreatedLine(script[k].filename)
                   /\ files[script[k].filename] # Absent
                   /\ files[script[k].filename].width = script[k].size
              ELSE files[script[k].filename] = prevFiles[script[k].filename]
        /\ \A k \in 1..Len(stdout) : stdout[k] # DoneLine
        /\ \A k \in 1..Len(events) :
              events[k][1] = "write" =>
                 \E j \in 1..(ip - 1) : events[k][2] = script[j].filename

C4_Witness ==
    /\ pc = "crashed"
    /\ err = "OSError"
    /\ ip = 2
    /\ files[Path16] # Absent
    /\ files[Path48] = Absent
    /\ files[Path128] = Absent
    /\ stdout = <<CreatedLine(Path16)>>

\* what an execution without a failure does, in order
FullRun ==
    << <<"write", Path16>>, <<"print", CreatedLine(Path16)>>,
       <<"write", Path48>>, <<"print", CreatedLine(Path48)>>,
       <<"write", Path128>>, <<"print", CreatedLine(Path128)>>,
       <<"print", DoneLine>> >>

\* C5: the writes and prints of an execution are, in order, icon 16 written
\* and announced, icon 48 written and announced, icon 128 written and
\* announced, completion line; an icon is being drawn only when all earlier
\* ones are written and announced; a finished execution did all of it, each
\* file holding the icon of its size
C5_InOrder ==
    /\ Len(events) <= Len(FullRun)
    /\ \A k \in 1..Len(events) : events[k] = FullRun[k]
    /\ (pc \notin {"main", "done", "crashed"}) =>
          /\ Len(events) \in {2 * (ip - 1), 2 * ip - 1}
          /\ size = Program[ip].size
          /\ filename = Program[ip].filename
    /\ pc = "print" => files[filename] = EncodePNG(img)
    /\ pc = "done" =>
          /\ events = FullRun
          /\ err = "none"
          /\ stdout = <<CreatedLine(Path16), CreatedLine(Path48),
                        CreatedLine(Path128), DoneLine>>
          /\ \A k \in 1..3 :
                /\ files[PathOf(k)].width = Program[k].size
                /\ files[PathOf(k)].height = Program[k].size

C5_Witness ==
    /\ pc = "done"
    /\ events = FullRun
    /\ files[Path128].width = 128

C7_NonPositiveRejected ==
    (script[1].size <= 0 /\ pc # "main" /\ pc # "new") =>
        /\ pc = "crashed"
        /\ err = "ValueError"
        /\ \A f \in Paths : files[f] = Absent
        /\ stdout = <<>>

\* the pixel the layers drawn so far leave at (x, y): segs segments of the
\* polyline are drawn, and the alert line if alertDrawn
Layered(n, m, lw, pts, yl, r, segs, alertDrawn) ==
    LET Box == CircleBox(n, m)
        Q1 == WideLine(pts[1], pts[2], lw)
        Q2 == WideLine(pts[2], pts[3], lw)
        Q3 == WideLine(pts[3], pts[4], lw)
        QA == WideLine(AlertFrom(n, m, yl), AlertTo(n, m, yl), AlertWidth(lw))
        A1 == Axes(Q1)
        A2 == Axes(Q2)
        A3 == Axes(Q3)
        AA == Axes(QA)
        E1 == Extents(Q1)
        E2 == Extents(Q2)
        E3 == Extents(Q3)
        EA == Extents(QA)
    IN  [y \in 1..n |-> [x \in 1..n |->
            IF alertDrawn /\ InQuad(AA, EA, r, x - 1, y - 1) THEN AlertWhite
            ELSE IF \/ segs >= 3 /\ InQuad(A3, E3, r, x - 1, y - 1)
                    \/ segs >= 2 /\ InQuad(A2, E2, r, x - 1, y - 1)
                    \/ segs >= 1 /\ InQuad(A1, E1, r, x - 1, y - 1) THEN White
            ELSE IF InEllipse(Box, r, x - 1, y - 1) THEN Orange
            ELSE Transparent]]

\* C8: the steps run in the order circle, segment P0-P1, P1-P2, P2-P3, alert
\* line, each replacing what is below it: after i segments the canvas is the
\* circle under those i segments, and the finished canvas has the alert
\* line on top, so every pixel the alert line covers is (255,255,255,200),
\* also where it crosses the white polyline, and so it is saved
C8_LayerOrder ==
    /\ pc = "loop" =>
          img = Layered(size, margin, line_width, points, 0, raster, i, FALSE)
    /\ pc = "save" =>
          img = Layered(size, margin, line_width, points, y_line, raster, 3, TRUE)
    /\ Drawn =>
          /\ y_line = (size \div 2) - (size \div 8)
          /\ \A x \in 0..(size - 1) :
                (2 * (size \div 8) <= x /\ x <= size - 2 * (size \div 8)) =>
                    GetPixel(img, x, y_line) = AlertWhite
    /\ pc = "print" =>
          /\ files[filename] = EncodePNG(img)
          /\ LET QA == WideLine(AlertFrom(size, margin, y_line),
                                AlertTo(size, margin, y_line), AlertWidth(line_width))
                 AA == Axes(QA)
                 EA == Extents(QA)
             IN  \A y \in 0..(size - 1) : \A x \in 0..(size - 1) :
                    InQuad(AA, EA, raster, x, y) =>
                        FilePixel(files[filename], x, y) = AlertWhite

C8_Witness ==
    /\ pc = "print"
    /\ size = 48
    /\ y_line = 18
    /\ InLine(points[3], points[4], line_width, raster, 31, 18)
    /\ GetPixel(img, 31, 18) = AlertWhite
    /\ FilePixel(files[filename], 31, 18) = AlertWhite

\* C9: from the allocation to the save the canvas is a size x size grid;
\* every pixel is transparent, opaque orange, opaque white or translucent
\* white; every pixel outside the circle, the three segments and the alert
\* line is still (0,0,0,0)
C9_FourColours ==
    HasCanvas =>
        /\ Len(img) = size
        /\ \A y \in 1..size : Len(img[y]) = size
        /\ \A y \in 1..size : \A x \in 1..size :
              img[y][x] \in {Transparent, Orange, White, AlertWhite}
        /\ LET m == size \div 8
               c == size \div 2
               lw == Max(2, size \div 16)
               yl == c - size \div 8
               P == Points(size, m, c)
               Box == <<m, m, size - m, size - m>>
               Q1 == WideLine(P[1], P[2], lw)
               Q2 == WideLine(P[2], P[3], lw)
               Q3 == WideLine(P[3], P[4], lw)
               QA == WideLine(<<m + size \div 8, yl>>, <<size - m - size \div 8, yl>>,
                              Max(1, lw \div 2))
               A1 == Axes(Q1)
               A2 == Axes(Q2)
               A3 == Axes(Q3)
               AA == Axes(QA)
               E1 == Extents(Q1)
               E2 == Extents(Q2)
               E3 == Extents(Q3)
               EA == Extents(QA)
           IN  \A y \in 1..size : \A x \in 1..size :
                  \/ img[y][x] = Transparent
                  \/ InEllipse(Box, raster, x - 1, y - 1)
                  \/ InQuad(A1, E1, raster, x - 1, y - 1)
                  \/ InQuad(A2, E2, raster, x - 1, y - 1)
                  \/ InQuad(A3, E3, raster, x - 1, y - 1)
                  \/ InQuad(AA, EA, raster, x - 1, y - 1)

C9_Witness ==
    /\ pc = "save"
    /\ size = 48
    /\ GetPixel(img, 0, 0) = Transparent
    /\ GetPixel(img, 24, 24) = Orange
    /\ GetPixel(img, 34, 12) = White
    /\ GetPixel(img, 20, 18) = AlertWhite

\* C10: for every size >= 16 the vertices P0..P3 have strictly increasing
\* x, P3 is higher than P0, the alert line runs from left to right, and all
\* vertices and both ends of the alert line lie in [margin, size - margin]
\* in both coordinates
C10_Geometry ==
    (Drawn /\ size >= 16) =>
        LET from == AlertFrom(size, margin, y_line)
            to == AlertTo(size, margin, y_line)
            inBox(p) == /\ margin <= p[1] /\ p[1] <= size - margin
                        /\ margin <= p[2] /\ p[2] <= size - margin
        IN  /\ Len(points) = 4
            /\ points[1][1] < points[2][1]
            /\ points[2][1] < points[3][1]
            /\ points[3][1] < points[4][1]
            /\ points[4][2] < points[1][2]
            /\ from[1] < to[1]
            /\ from[2] = to[2]
            /\ \A k \in 1..4 : inBox(points[k])
            /\ inBox(from)
            /\ inBox(to)

C10_Witness ==
    /\ pc = "save"
    /\ size = 128
    /\ points = << <<37, 85>>, <<52, 52>>, <<76, 64>>, <<91, 32>> >>
    /\ AlertFrom(size, margin, y_line) = <<32, 48>>
    /\ AlertTo(size, margin, y_line) = <<96, 48>>

====
